---- MODULE Spec2Model ----
(***************************************************************************)
(* A model of reactord's plug-flow reactor: the PFR orchestrator           *)
(* (flowreactors/stationary_1d/pfr/pfr.py), the Ergun pressure balance,    *)
(* the Kinetics evaluator and the reactor base's mixture setter.           *)
(*                                                                         *)
(* Python values are encoded as follows.  Numbers are non-negative         *)
(* integers; None is the integer -1, which no number of the model equals.  *)
(* A 1-D array is a sequence, a 2-D array a sequence of rows.  A dict is a *)
(* set of <<key, value>> pairs with distinct keys.  A string that the code  *)
(* transforms is a sequence of one-character strings.  An exception is the *)
(* name of its class; "none" stands for normal completion.  A variable     *)
(* that refers to an object is <<>> when there is none and <<object>>      *)
(* otherwise.                                                              *)
(***************************************************************************)
EXTENDS Integers, Sequences, FiniteSets, TLC

VARIABLES
    ergun,            \* the Ergun object (the reactor's pressure_balance), or NoObject
    ergun_last,       \* the last operation on the Ergun balance: op, arg, exc, ret
    kinetics,         \* the Kinetics object that ReactorBase._kinetics refers to, or NoObject
    kin_last,         \* the last operation on the Kinetics / the reactor's mix: op, arg, exc, ret
    mass_balance,     \* the reactor's mass balance (its boundary specification)
    energy_balance,   \* the reactor's energy balance (its boundary specification)
    reactor,          \* the PFR object's own fields
    pc,               \* the statement of PFR.simulate that runs next
    solver,           \* the external solve_bvp call: active, and the x, y it was handed
    phase,            \* the phase of the current simulate call
    built,            \* the builders that have completed in the current simulate call
    ret               \* the last value returned to the caller: op, args, value

vars == <<ergun, ergun_last, kinetics, kin_last, mass_balance,
          energy_balance, reactor, pc, solver, phase, built, ret>>

ergunVars == <<ergun, ergun_last>>
kinVars == <<kinetics, kin_last>>
pfrVars == <<mass_balance, energy_balance, reactor, pc, solver, phase, built, ret>>

-----------------------------------------------------------------------------
(* Bounds of the model *)

MaxPressure == 2          \* pressures are 0..MaxPressure
MaxFlow == 1              \* boundary molar flows are 0..MaxFlow
MaxGrid == 3              \* configured grid sizes are 2..MaxGrid
MaxNodes == 4             \* the solver's meshes have at most MaxNodes nodes
NumTrials == 2            \* the solver's trial states per mesh size
MaxPorosity == 2          \* porosities and particle diameters are 1..MaxPorosity
MaxComp == 3              \* a stoichiometry has 1..MaxComp columns
MaxReactions == 2         \* a 2-D stoichiometry has 1..MaxReactions rows

-----------------------------------------------------------------------------
(* Python values *)

None == -1

NoObject == <<>>

\* bool(x) of an optional number: None and 0 are falsy.
Truthy(x) == x # None /\ x # 0

\* dict.get(key): the value, or None when the key is absent.
DictGet(d, key) ==
    IF \E p \in d : p[1] = key
    THEN (CHOOSE p \in d : p[1] = key)[2]
    ELSE None

\* numpy.full(n, value)
NpFull(n, value) == [i \in 1..n |-> value]

\* numpy.append(a, b) of two 1-D arrays
NpAppend(a, b) == a \o b

\* numpy.argwhere(numpy.not_equal(a, None)).ravel(): ascending 0-based indices
RECURSIVE ArgwhereNotNone(_, _)
ArgwhereNotNone(a, i) ==
    IF i > Len(a) THEN <<>>
    ELSE IF a[i] # None THEN <<i - 1>> \o ArgwhereNotNone(a, i + 1)
    ELSE ArgwhereNotNone(a, i + 1)

RECURSIVE SeqSum(_)
SeqSum(s) == IF s = <<>> THEN 0 ELSE Head(s) + SeqSum(Tail(s))

Range(s) == {s[i] : i \in DOMAIN s}

\* matrix[:, c - 1]
Column(matrix, c) == [row \in 1..Len(matrix) |-> matrix[row][c]]

-----------------------------------------------------------------------------
(* Floats.  A float that the code computes by dividing is kept exact, as   *)
(* the ratio <<n, d>> in lowest terms with d > 0.  NaN, the result of 0/0  *)
(* and of any operation on it, is <<0, 0>>.  The inputs of the model never *)
(* divide a non-zero number by zero, so no infinity arises.                *)

Abs(x) == IF x < 0 THEN -x ELSE x

\* F(v), with v evaluated once however often F uses it
Bind(v, F(_)) == CHOOSE y \in {F(x) : x \in {v}} : TRUE

RECURSIVE Gcd(_, _)
Gcd(a, b) == IF b = 0 THEN a ELSE Gcd(b, a % b)

NaN == <<0, 0>>

Ratio(n, d) ==
    IF d = 0 THEN NaN
    ELSE LET g == Gcd(Abs(n), Abs(d))
             s == IF d < 0 THEN -1 ELSE 1
         IN  <<(s * n) \div g, (s * d) \div g>>

Float(i) == <<i, 1>>
IsNaN(a) == a[2] = 0

\* a + b, a * b, 1 / a, a / b, -a.  Common factors are cancelled before the
\* products are formed, which keeps the intermediate integers small.
FAdd(a, b) ==
    IF IsNaN(a) \/ IsNaN(b) THEN NaN
    ELSE LET g == Gcd(a[2], b[2])
         IN  Ratio(a[1] * (b[2] \div g) + b[1] * (a[2] \div g),
                   (a[2] \div g) * b[2])
FMul(a, b) ==
    IF IsNaN(a) \/ IsNaN(b) THEN NaN
    ELSE LET g == Gcd(Abs(a[1]), b[2])
             h == Gcd(Abs(b[1]), a[2])
         IN  Ratio((a[1] \div g) * (b[1] \div h), (a[2] \div h) * (b[2] \div g))
FInv(a) ==
    IF a[1] = 0 THEN NaN ELSE IF a[1] < 0 THEN <<-a[2], -a[1]>> ELSE <<a[2], a[1]>>
FDiv(a, b) == IF IsNaN(a) \/ IsNaN(b) THEN NaN ELSE FMul(a, FInv(b))
FNeg(a) == <<-a[1], a[2]>>

\* numpy.sum of a 1-D array of floats
RECURSIVE FSum(_)
FSum(s) == IF s = <<>> THEN Float(0) ELSE FAdd(Head(s), FSum(Tail(s)))

\* numpy.dot of two 1-D arrays of floats of one length
FDot(a, b) == FSum([i \in 1..Len(a) |-> FMul(a[i], b[i])])

-----------------------------------------------------------------------------
(* Ergun pressure balance: pressure_balances/ergun.py *)

PressureValues == 0..MaxPressure
PressureDicts ==
    {d \in SUBSET ({"in", "out"} \X PressureValues) :
        \A p, q \in d : p[1] = q[1] => p = q}
Porosities == 1..MaxPorosity
ParticleDiameters == 1..MaxPorosity

\* Ergun.__init__: the fields are assigned, then both pressures are tested
\* for truth.  The result is the exception raised and the object built.
ErgunRaises(inlet, outlet) == Truthy(inlet) /\ Truthy(outlet)

Ergun__init__(pressure, porosity, particle_diameter) ==
    LET inlet == DictGet(pressure, "in")
        outlet == DictGet(pressure, "out")
        self == [inlet_pressure |-> inlet,
                 outlet_pressure |-> outlet,
                 porosity |-> porosity,
                 particle_diameter |-> particle_diameter]
    IN  IF ErgunRaises(inlet, outlet)
        THEN [exc |-> "ValueError", obj |-> NoObject]
        ELSE [exc |-> "none", obj |-> <<self>>]

\* Ergun.initial_profile(reactor): reads reactor.grid_size only.
Ergun_initial_profile(self, grid_size) ==
    IF Truthy(self.inlet_pressure)
    THEN NpFull(grid_size, self.inlet_pressure)
    ELSE NpFull(grid_size, self.outlet_pressure)

\* Ergun.border_conditions(reactor): the (inlet, outlet) pair.
Ergun_border_conditions(self) ==
    IF Truthy(self.inlet_pressure)
    THEN <<self.inlet_pressure, None>>
    ELSE <<None, self.outlet_pressure>>

\* Every Ergun object the constructor can return.
ErgunObjects ==
    {Ergun__init__(d, p, dp).obj[1] :
        d \in {x \in PressureDicts :
                 ~ErgunRaises(DictGet(x, "in"), DictGet(x, "out"))},
        p \in Porosities, dp \in ParticleDiameters}

NoErgunArg == [pressure |-> {}, grid_size |-> None]
NoErgunOp == [op |-> "none", arg |-> NoErgunArg, exc |-> "none", ret |-> <<>>]

ErgunInit(pressure, porosity, particle_diameter) ==
    LET r == Ergun__init__(pressure, porosity, particle_diameter)
    IN  /\ ergun' = r.obj
        /\ ergun_last' = [op |-> "__init__",
                          arg |-> [NoErgunArg EXCEPT !.pressure = pressure],
                          exc |-> r.exc, ret |-> <<>>]
        /\ UNCHANGED <<kinVars, pfrVars>>

ErgunInitialProfile(grid_size) ==
    /\ ergun # NoObject
    /\ ergun_last' = [op |-> "initial_profile",
                      arg |-> [NoErgunArg EXCEPT !.grid_size = grid_size],
                      exc |-> "none",
                      ret |-> Ergun_initial_profile(ergun[1], grid_size)]
    /\ UNCHANGED <<ergun, kinVars, pfrVars>>

ErgunBorderConditions ==
    /\ ergun # NoObject
    /\ ergun_last' = [op |-> "border_conditions", arg |-> NoErgunArg,
                      exc |-> "none",
                      ret |-> Ergun_border_conditions(ergun[1])]
    /\ UNCHANGED <<ergun, kinVars, pfrVars>>

-----------------------------------------------------------------------------
(* Mixtures.  A mixture object is its identity, its substances' names in   *)
(* order, its phase and, per substance, the formation enthalpy, the molar  *)
(* volume, the liquid and the gas heat capacity (each constant in the      *)
(* temperature) and the molecular weight; the mixture's mass density and   *)
(* viscosity are constants of the mixture.                                 *)

MixAB == [id |-> "AB", names |-> <<"A", "B">>,
          h_formations |-> <<1, 3>>, phase |-> "liquid",
          molar_volumes |-> <<2, 2>>,
          cp_liquid |-> <<1, 2>>, cp_gas |-> <<3, 5>>,
          molecular_weights |-> <<1000, 1000>>,
          density |-> 1, viscosity |-> 1]
MixCD == [id |-> "CD", names |-> <<"C", "D">>,
          h_formations |-> <<2, 5>>, phase |-> "gas",
          molar_volumes |-> <<1, 3>>,
          cp_liquid |-> <<2, 1>>, cp_gas |-> <<4, 7>>,
          molecular_weights |-> <<1000, 2000>>,
          density |-> 2, viscosity |-> 1]
MixABC == [id |-> "ABC", names |-> <<"A", "B", "C">>,
           h_formations |-> <<1, 3, 4>>, phase |-> "liquid",
           molar_volumes |-> <<2, 2, 1>>,
           cp_liquid |-> <<1, 2, 2>>, cp_gas |-> <<3, 5, 4>>,
           molecular_weights |-> <<1000, 1000, 2000>>,
           density |-> 1, viscosity |-> 2]
Mixes == {MixAB, MixCD, MixABC}

\* len(mix): the number of substances.
MixLen(m) == Len(m.names)

-----------------------------------------------------------------------------
(* Kinetics: kinetics.py *)

\* str.lower(), on the letters the model's strings use.
UpperToLower == [C |-> "c", P |-> "p", A |-> "a", R |-> "r", T |-> "t",
                 I |-> "i", L |-> "l", E |-> "e", S |-> "s", U |-> "u",
                 N |-> "n", O |-> "o"]
LowerChar(c) == IF c \in DOMAIN UpperToLower THEN UpperToLower[c] ELSE c
StrUnchanged(s) == s
StrLower(s) == [i \in 1..Len(s) |-> LowerChar(s[i])]

StrConcentration == <<"c","o","n","c","e","n","t","r","a","t","i","o","n">>
StrPartialPressure ==
    <<"p","a","r","t","i","a","l","_","p","r","e","s","s","u","r","e">>
KineticArguments ==
    { StrConcentration,
      StrPartialPressure,
      <<"C","o","n","c","e","n","t","r","a","t","i","o","n">>,
      <<"P","A","R","T","I","A","L","_","P","R","E","S","S","U","R","E">>,
      <<"p","r","e","s","s","u","r","e">>,
      <<>> }

\* The stoichiometry argument as numpy sees it: its shape, <<n>> for a flat
\* list of n coefficients and <<r, n>> for a list of r rows of n, and its
\* entries in row-major order.
Coefficients == {-1, 1}
Stoichiometries ==
    UNION {{[shape |-> <<n>>, flat |-> d] : d \in [1..n -> Coefficients]}
             : n \in 1..MaxComp}
    \cup
    UNION {{[shape |-> <<r, n>>, flat |-> d] : d \in [1..(r * n) -> Coefficients]}
             : r \in 1..MaxReactions, n \in 1..MaxComp}
NoStoichiometry == [shape |-> <<>>, flat |-> <<>>]

\* The rate functions reaction(composition, temperature).  One of order 0
\* returns its constant k whatever the composition, one of order 1 returns
\* k * composition[0].
ReactionLists ==
    { <<[k |-> 1, order |-> 0]>>,
      <<[k |-> 1, order |-> 1], [k |-> 2, order |-> 0]>> }

Reaction_rate(reaction, composition, temperature) ==
    IF reaction.order = 0 THEN Float(reaction.k)
    ELSE FMul(Float(reaction.k), composition[1])

\* numpy.shape
NpShape(st) == st.shape

\* numpy.array(x).reshape((rows, cols)): the entries, row-major, cut in rows
Reshape(st, rows, cols) ==
    [r \in 1..rows |-> [c \in 1..cols |-> st.flat[(r - 1) * cols + c]]]

\* numpy.dot(matrix, vector): raises ValueError unless the matrix's column
\* count is the vector's length.
NpDotLenient(matrix, vector) ==
    [exc |-> "none",
     value |-> [r \in 1..Len(matrix) |->
                  SeqSum([c \in 1..(IF Len(vector) < Len(matrix[1])
                                    THEN Len(vector) ELSE Len(matrix[1])) |->
                            matrix[r][c] * vector[c]])]]
NpDot(matrix, vector) ==
    IF Len(matrix[1]) # Len(vector)
    THEN [exc |-> "ValueError", value |-> <<>>]
    ELSE [exc |-> "none",
          value |-> [r \in 1..Len(matrix) |->
                       SeqSum([c \in 1..Len(vector) |-> matrix[r][c] * vector[c]])]]

\* Kinetics._std_reaction_enthalpies
StdReactionEnthalpies(stoichiometry, m) == NpDot(stoichiometry, m.h_formations)

\* Kinetics.__init__, the creation of the stoichiometry matrix:
\* <<num_reactions, total_comp>> from the shape of the argument.
StoichiometryDimsColumn(shape) ==
    IF Len(shape) = 1 THEN <<shape[1], 1>> ELSE <<shape[1], shape[2]>>
StoichiometryDims(shape) ==
    IF Len(shape) = 1 THEN <<1, shape[1]>> ELSE <<shape[1], shape[2]>>

\* Kinetics.__init__: the exception raised and the object built.
Kinetics__init__(list_of_reactions, m, stoichiometry, kinetic_argument) ==
    LET shape == NpShape(stoichiometry)
        num_reactions == StoichiometryDims(shape)[1]
        total_comp == StoichiometryDims(shape)[2]
        matrix == Reshape(stoichiometry, num_reactions, total_comp)
        argument == StrLower(kinetic_argument)
        std == StdReactionEnthalpies(matrix, m)
        self == [reactions |-> list_of_reactions,
                 mix |-> m,
                 num_reactions |-> num_reactions,
                 total_comp |-> total_comp,
                 stoichiometry |-> matrix,
                 argument |-> argument,
                 std_reaction_enthalpies |-> std.value,
                 kinetic_argument |-> NoObject,
                 composition_calculator |->
                     [method |-> IF argument = StrConcentration
                                 THEN "concentrations" ELSE "partial_pressures",
                      mix |-> m]]
    IN  IF std.exc # "none"
        THEN [exc |-> std.exc, obj |-> NoObject]
        ELSE IF argument = StrConcentration \/ argument = StrPartialPressure
        THEN [exc |-> "none", obj |-> <<self>>]
        ELSE [exc |-> "ValueError", obj |-> NoObject]

\* ReactorBase.mix, the getter: the mixture stored on the Kinetics.
ReactorBase_mix == kinetics[1].mix

\* ReactorBase.mix, the setter: self._kinetics.mix = new_mix
ReactorBase_set_mix(kin, new_mix) == [kin EXCEPT !.mix = new_mix]

NoKinArg == [list_of_reactions |-> <<>>, mix |-> MixAB,
             stoichiometry |-> NoStoichiometry, kinetic_argument |-> <<>>,
             layout |-> "none", moles |-> <<>>, temperature |-> <<>>,
             pressure |-> <<>>]
NoKinOp == [op |-> "none", exc |-> "none", arg |-> NoKinArg, ret |-> <<>>]

\* The constructor is applied to the arguments kin_last.arg holds.
KineticsInit ==
    LET a == kin_last.arg
        r == Kinetics__init__(a.list_of_reactions, a.mix, a.stoichiometry,
                              a.kinetic_argument)
    IN  /\ kin_last.op = "none"
        /\ kinetics' = r.obj
        /\ kin_last' = [kin_last EXCEPT !.op = "__init__", !.exc = r.exc]
        /\ UNCHANGED <<ergunVars, pfrVars>>

\* ReactorBase.kinetic_argument, the getter: return self._kinetics.stoichiometry
ReactorBase_kinetic_argument(kin) == kin.stoichiometry

\* ReactorBase.kinetic_argument, the setter:
\* self._kinetics.kinetic_argument = new_kinetics_argument, an attribute
\* that Kinetics.__init__ does not create and no method of Kinetics reads.
ReactorBase_set_kinetic_argument(kin, new_kinetics_argument) ==
    [kin EXCEPT !.kinetic_argument = <<new_kinetics_argument>>]

ReactorBaseSetMix(new_mix) ==
    /\ kinetics # NoObject
    /\ kinetics' = <<ReactorBase_set_mix(kinetics[1], new_mix)>>
    /\ kin_last' = [op |-> "set_mix", exc |-> "none",
                    arg |-> [kin_last.arg EXCEPT !.mix = new_mix], ret |-> <<>>]
    /\ UNCHANGED <<ergunVars, pfrVars>>

-----------------------------------------------------------------------------
(* Mixture and kinetics operations the reactor calls at every node *)

\* Abstract_Mix.mol_fracations of a moles array with one row per substance
\* and one column per node: moles / numpy.sum(moles, axis=0).
mole_fractions_first_node_total(moles) ==
    LET nodes == IF moles = <<>> THEN 0 ELSE Len(moles[1])
        total == [c \in 1..nodes |->
                    SeqSum([s \in 1..Len(moles) |-> moles[s][1]])]
    IN  [s \in 1..Len(moles) |->
            [c \in 1..nodes |-> Ratio(moles[s][c], total[c])]]
mole_fractions(moles) ==
    LET nodes == IF moles = <<>> THEN 0 ELSE Len(moles[1])
        total == [c \in 1..nodes |->
                    SeqSum([s \in 1..Len(moles) |-> moles[s][c]])]
    IN  [s \in 1..Len(moles) |->
            [c \in 1..nodes |-> Ratio(moles[s][c], total[c])]]

\* Abstract_Mix.mol_fracations of a 1-D array of floats
mol_fracations(moles) ==
    Bind(FSum(moles), LAMBDA total_moles :
        [s \in 1..Len(moles) |-> FDiv(moles[s], total_moles)])

\* Liquid_Mix.concentrations and IdealGas_Mix.concentrations: the mole
\* fractions over their dot product with the pure molar volumes, which
\* raises ValueError unless there is one mole number per substance.
concentrations(m, moles, temperature, pressure) ==
    LET molar_volumes == [s \in 1..MixLen(m) |-> Float(m.molar_volumes[s])]
    IN  IF Len(moles) # Len(molar_volumes)
        THEN [exc |-> "ValueError", value |-> <<>>]
        ELSE Bind(mol_fracations(moles), LAMBDA zi :
               Bind(FDot(zi, molar_volumes), LAMBDA mix_volume :
                 [exc |-> "none",
                  value |-> [s \in 1..Len(zi) |-> FDiv(zi[s], mix_volume)]]))

\* Abstract_Mix.partial_pressures: the mole fractions times the pressure
partial_pressures(m, moles, temperature, pressure) ==
    Bind(mol_fracations(moles), LAMBDA zi :
        [exc |-> "none",
         value |-> [s \in 1..Len(zi) |-> FMul(zi[s], Float(pressure))]])

\* self._composition_calculator: the method bound at construction
composition_calculator(calculator, moles, temperature, pressure) ==
    IF calculator.method = "concentrations"
    THEN concentrations(calculator.mix, moles, temperature, pressure)
    ELSE partial_pressures(calculator.mix, moles, temperature, pressure)

\* numpy.matmul(vector, matrix): raises ValueError unless the vector has one
\* entry per row of the matrix.
NpMatmulUnsigned(vector, matrix) ==
    IF Len(vector) # Len(matrix)
    THEN [exc |-> "ValueError", value |-> <<>>]
    ELSE [exc |-> "none",
          value |-> [c \in 1..Len(matrix[1]) |->
                       FSum([r \in 1..Len(vector) |->
                               FMul(vector[r], Float(Abs(matrix[r][c])))])]]
NpMatmul(vector, matrix) ==
    IF Len(vector) # Len(matrix)
    THEN [exc |-> "ValueError", value |-> <<>>]
    ELSE [exc |-> "none",
          value |-> [c \in 1..Len(matrix[1]) |->
                       FSum([r \in 1..Len(vector) |->
                               FMul(vector[r], Float(matrix[r][c]))])]]

NoRates == [exc |-> "ValueError", rates_i |-> <<>>, reaction_rates |-> <<>>]

\* Kinetics.kinetic_eval, the method itself: one composition vector, one
\* temperature and one pressure give (rates_i, reaction_rates).
kinetic_eval(kin, moles, temperature, pressure) ==
    Bind(composition_calculator(kin.composition_calculator, moles,
                                temperature, pressure),
         LAMBDA composition :
      IF composition.exc # "none" THEN NoRates
      ELSE Bind([r \in 1..Len(kin.reactions) |->
                   Reaction_rate(kin.reactions[r], composition.value,
                                 temperature)],
                LAMBDA reaction_rates :
             Bind(NpMatmul(reaction_rates, kin.stoichiometry),
                  LAMBDA rates_i :
               IF rates_i.exc # "none" THEN NoRates
               ELSE [exc |-> "none", rates_i |-> rates_i.value,
                     reaction_rates |-> reaction_rates])))

\* The loop length numpy broadcasts a set of leading lengths to, or None
\* when they cannot be broadcast to one shape.
BroadcastLen(lens) ==
    LET wide == {l \in lens : l # 1}
    IN  IF wide = {} THEN 1
        ELSE IF Cardinality(wide) = 1 THEN CHOOSE l \in wide : TRUE
        ELSE None

BroadcastAt(a, i) == IF Len(a) = 1 THEN a[1] ELSE a[i]

\* self.kinetic_eval as __init__ rebinds it:
\* numpy.vectorize(kinetic_eval, signature='(n),(),()->(n),(m)'), called with
\* a 2-D moles array and 1-D temperature and pressure arrays.  The last axis
\* of moles is the core dimension n; the leading axis is looped over,
\* broadcast against the temperatures and the pressures; the first output
\* of every call must have n entries.
kinetic_eval_vectorized(kin, moles, temperature, pressure) ==
    LET loop == BroadcastLen({Len(moles), Len(temperature), Len(pressure)})
        n == Len(moles[1])
    IN  IF loop = None THEN NoRates
        ELSE Bind([i \in 1..loop |->
                     kinetic_eval(kin, BroadcastAt(moles, i),
                                  BroadcastAt(temperature, i),
                                  BroadcastAt(pressure, i))],
                  LAMBDA calls :
               IF \E i \in 1..loop : calls[i].exc # "none" THEN NoRates
               ELSE IF Len(calls[1].rates_i) # n THEN NoRates
               ELSE [exc |-> "none",
                     rates_i |-> [i \in 1..loop |-> calls[i].rates_i],
                     reaction_rates |->
                         [i \in 1..loop |-> calls[i].reaction_rates]])

\* The reference temperature of the reaction enthalpies, 298.15 K
t_0 == Ratio(29815, 100)

\* scipy.integrate.quad of a heat capacity that is constant in the
\* temperature, from a to b
QuadUpperOnly(cp, a, b) == FMul(Float(cp), b)
Quad(cp, a, b) == FMul(Float(cp), FAdd(b, FNeg(a)))

\* numpy.dot(stoichiometry, cp_dt_integrals) on floats
FMatVec(matrix, vector) ==
    IF Len(matrix[1]) # Len(vector)
    THEN [exc |-> "ValueError", value |-> <<>>]
    ELSE [exc |-> "none",
          value |-> [r \in 1..Len(matrix) |->
                       FDot([c \in 1..Len(vector) |-> Float(matrix[r][c])],
                            vector)]]

\* Kinetics.reaction_enthalpies: dh is assigned in the branch of the
\* mixture's phase, and in neither branch for any other phase.
reaction_enthalpies(kin, temperature, pressure) ==
    LET cps == IF kin.mix.phase = "liquid" THEN kin.mix.cp_liquid
               ELSE kin.mix.cp_gas
    IN  IF kin.mix.phase \notin {"liquid", "gas"}
        THEN [exc |-> "UnboundLocalError", value |-> <<>>]
        ELSE Bind([s \in 1..Len(cps) |-> Quad(cps[s], t_0, temperature)],
                  LAMBDA cp_dt_integrals :
               Bind(FMatVec(kin.stoichiometry, cp_dt_integrals), LAMBDA dh :
                 IF dh.exc # "none" THEN [exc |-> dh.exc, value |-> <<>>]
                 ELSE [exc |-> "none",
                       value |-> [r \in 1..Len(dh.value) |->
                                    FAdd(dh.value[r],
                                         Float(kin.std_reaction_enthalpies[r]))]]))

\* The inputs of the evaluations
MaxMoles == 2
MolesValues == 1..MaxMoles
Temperatures == {Float(300)}
EnthalpyTemperatures == {t_0, Float(298), Float(300)}

\* A batch of nodes: the moles of substance s at node c, one row per node
BatchMoles(k, substances, nodes) ==
    [c \in 1..nodes |-> [s \in 1..substances |-> s + 2 * c + k - 2]]
BatchTemperatures(nodes) == [c \in 1..nodes |-> Float(300 + c)]
BatchPressures(nodes) == [c \in 1..nodes |-> c]

Floats(a) == [i \in 1..Len(a) |-> Float(a[i])]

\* The inputs of an evaluation: one composition (kept as the only row of
\* moles), a batch of nodes in one of the two layouts, or a temperature for
\* the reaction enthalpies.
EvalInputs(substances) ==
    {[layout |-> "one", moles |-> <<moles>>, temperature |-> <<temperature>>,
      pressure |-> <<pressure>>] :
        moles \in [1..substances -> MolesValues],
        temperature \in Temperatures, pressure \in {1, MaxPressure}}
    \cup
    {[layout |-> layout,
      moles |-> IF layout = "nodes" THEN BatchMoles(k, substances, nodes)
                ELSE [s \in 1..substances |->
                        Column(BatchMoles(k, substances, nodes), s)],
      temperature |-> BatchTemperatures(nodes),
      pressure |-> BatchPressures(nodes)] :
        layout \in {"nodes", "substances"}, k \in 1..NumTrials,
        nodes \in 1..MaxGrid}
    \cup
    {[layout |-> "none", moles |-> <<>>, temperature |-> <<temperature>>,
      pressure |-> <<1>>] : temperature \in EnthalpyTemperatures}

\* kinetics.kinetic_eval(moles, temperature, pressure) on one composition
KineticEval ==
    LET a == kin_last.arg
    IN  /\ kinetics # NoObject
        /\ a.layout = "one"
        /\ kin_last' =
              Bind(kinetic_eval_vectorized(kinetics[1], <<Floats(a.moles[1])>>,
                                           a.temperature, a.pressure),
                   LAMBDA r :
                [kin_last EXCEPT
                   !.op = "kinetic_eval", !.exc = r.exc,
                   !.ret = IF r.exc = "none"
                           THEN <<r.rates_i[1], r.reaction_rates[1]>>
                           ELSE <<>>])
        /\ UNCHANGED <<kinetics, ergunVars, pfrVars>>

\* kinetics.kinetic_eval on a batch of nodes, with one temperature and one
\* pressure per node.  The moles array has one row per node ("nodes") or,
\* as PFR.evaluate_balances passes it, one row per substance and one column
\* per node ("substances").
KineticEvalBatch ==
    LET a == kin_last.arg
    IN  /\ kinetics # NoObject
        /\ a.layout \in {"nodes", "substances"}
        /\ kin_last' =
              Bind(kinetic_eval_vectorized(
                       kinetics[1],
                       [i \in 1..Len(a.moles) |-> Floats(a.moles[i])],
                       a.temperature, a.pressure),
                   LAMBDA r :
                [kin_last EXCEPT
                   !.op = "kinetic_eval", !.exc = r.exc,
                   !.ret = IF r.exc = "none"
                           THEN <<r.rates_i, r.reaction_rates>> ELSE <<>>])
        /\ UNCHANGED <<kinetics, ergunVars, pfrVars>>

ReactionEnthalpies ==
    LET a == kin_last.arg
    IN  /\ kinetics # NoObject
        /\ a.layout = "none"
        /\ a.temperature # <<>>
        /\ kin_last' =
              Bind(reaction_enthalpies(kinetics[1], a.temperature[1],
                                       a.pressure[1]),
                   LAMBDA r :
                [kin_last EXCEPT !.op = "reaction_enthalpies",
                                 !.exc = r.exc, !.ret = r.value])
        /\ UNCHANGED <<kinetics, ergunVars, pfrVars>>

\* mix.mole_fractions(moles) on a moles array with one row per substance and
\* one column per node, and mix.mol_fracations on the moles of one node
MoleFractionsProfile ==
    /\ kin_last.arg.layout = "substances"
    /\ kin_last' = [kin_last EXCEPT
                      !.op = "mole_fractions",
                      !.ret = [node |-> 0,
                               zi |-> mole_fractions(kin_last.arg.moles)]]
    /\ UNCHANGED <<kinetics, ergunVars, pfrVars>>

MolFracationsNode(c) ==
    /\ kin_last.arg.layout = "substances"
    /\ c \in 1..Len(kin_last.arg.moles[1])
    /\ kin_last' = [kin_last EXCEPT
                      !.op = "mol_fracations",
                      !.ret = [node |-> c,
                               zi |-> mol_fracations(
                                          Floats(Column(kin_last.arg.moles, c)))]]
    /\ UNCHANGED <<kinetics, ergunVars, pfrVars>>

\* reactor.kinetic_argument read, and assigned.  The value read is kept
\* with its Python type, a string and an array being never equal.
ReactorBaseGetKineticArgument ==
    /\ kinetics # NoObject
    /\ kin_last' = [op |-> "get_kinetic_argument", exc |-> "none",
                    arg |-> kin_last.arg,
                    ret |-> [type |-> "ndarray",
                             value |-> ReactorBase_kinetic_argument(kinetics[1])]]
    /\ UNCHANGED <<kinetics, ergunVars, pfrVars>>

ReactorBaseSetKineticArgument(new_kinetics_argument) ==
    /\ kinetics # NoObject
    /\ kinetics' = <<ReactorBase_set_kinetic_argument(kinetics[1],
                                                      new_kinetics_argument)>>
    /\ kin_last' = [op |-> "set_kinetic_argument", exc |-> "none",
                    arg |-> [kin_last.arg EXCEPT
                               !.kinetic_argument = new_kinetics_argument],
                    ret |-> <<>>]
    /\ UNCHANGED <<ergunVars, pfrVars>>

\* ReactorBase.kinetics, the getter, and ReactorBase.stoichiometry, the
\* getter: self._kinetics and self._kinetics.stoichiometry
ReactorBase_kinetics == kinetics
ReactorBase_stoichiometry == kinetics[1].stoichiometry

\* A value with its Python class: ref is the object, or NoObject for None.
\* isinstance(value, Kinetics) looks at the class alone.
IsInstanceKinetics(value) == value.class = "Kinetics"

\* ReactorBase.kinetics, the setter: the exception raised and the object
\* self._kinetics refers to afterwards.
ReactorBase_set_kinetics_unchecked(current, new_kinetics) ==
    [exc |-> "none", kinetics |-> new_kinetics.ref]
ReactorBase_set_kinetics(current, new_kinetics) ==
    IF IsInstanceKinetics(new_kinetics)
    THEN [exc |-> "none", kinetics |-> new_kinetics.ref]
    ELSE [exc |-> "ValueError", kinetics |-> current]

\* reactor.kinetics = new_kinetics.  The value assigned and the object
\* stored before are kept with the outcome.
ReactorBaseSetKinetics(new_kinetics) ==
    /\ \E r \in {ReactorBase_set_kinetics(kinetics, new_kinetics)} :
          /\ kinetics' = r.kinetics
          /\ kin_last' = [op |-> "set_kinetics", exc |-> r.exc,
                          arg |-> NoKinArg,
                          ret |-> [new |-> new_kinetics, previous |-> kinetics]]
    /\ UNCHANGED <<ergunVars, pfrVars>>

-----------------------------------------------------------------------------
(* The mass and energy balances: their boundary specification *)

BorderValues == {None} \cup 0..MaxFlow
EnergyValues == {None, 1}

\* molar_flows_in / molar_flows_out, per substance of MixAB in mixture order
MassBalances ==
    {[molar_flows_in |-> i, molar_flows_out |-> o] :
        i \in [1..MixLen(MixAB) -> BorderValues],
        o \in [1..MixLen(MixAB) -> BorderValues]}

\* the three formulations of test_fogler_p1_15a
TestMassBalances ==
    { [molar_flows_in |-> <<1, 0>>, molar_flows_out |-> <<None, None>>],
      [molar_flows_in |-> <<1, None>>, molar_flows_out |-> <<None, 1>>],
      [molar_flows_in |-> <<None, None>>, molar_flows_out |-> <<1, 1>>] }

\* inlet / outlet values of the temperature and the refrigerant temperature
EnergyBalances ==
    {[inlet |-> <<t, None>>, outlet |-> <<None, tr>>] :
        t \in EnergyValues, tr \in EnergyValues}
TestEnergyBalances == {[inlet |-> <<1, 1>>, outlet |-> <<None, None>>]}

\* the value a profile is seeded with: whichever border is known
SeedValue(inlet, outlet) ==
    IF inlet # None THEN inlet ELSE IF outlet # None THEN outlet ELSE 0

MolarFlow_border_conditions(mb) == <<mb.molar_flows_in, mb.molar_flows_out>>
MolarFlow_initial_profile(mb, grid_size) ==
    [s \in 1..Len(mb.molar_flows_in) |->
        NpFull(grid_size, SeedValue(mb.molar_flows_in[s], mb.molar_flows_out[s]))]

Energy_border_conditions(eb) == <<eb.inlet, eb.outlet>>
Energy_initial_profile(eb, grid_size) ==
    [v \in 1..2 |-> NpFull(grid_size, SeedValue(eb.inlet[v], eb.outlet[v]))]

\* The mass balance's local gradient: the molar flow of a substance changes
\* at a node by the net rate the Kinetics returned for that node.  rates is
\* the first array of reactor.r_rates_profile, one net-rate vector per node.
MolarFlow_evaluate_balance(rates) ==
    [s \in 1..(IF rates = <<>> THEN 0 ELSE Len(rates[1])) |->
        [c \in 1..Len(rates) |-> rates[c][s]]]

\* The isothermic energy balance's local gradient: the temperature and the
\* refrigerant temperature do not change.
Energy_evaluate_balance(eb, grid_size) ==
    [v \in 1..2 |-> NpFull(grid_size, Float(0))]

\* The mixture's properties at every node, and the molecular weight of one
\* composition.
mass_density(m, fractions, temperature, pressure) ==
    NpFull(Len(temperature), Float(m.density))
mix_viscosity(m, fractions, temperature, pressure) ==
    NpFull(Len(temperature), Float(m.viscosity))
mix_molecular_weight(m, fractions) ==
    FDot(fractions, [s \in 1..Len(fractions) |-> Float(m.molecular_weights[s])])

-----------------------------------------------------------------------------
(* PFR: flowreactors/stationary_1d/pfr/pfr.py *)

GridSizes == 2..MaxGrid
ReactorLengths == {60}
TransversalAreas == {1}

\* numpy.linspace(0, stop, num), num >= 2
Linspace(stop, num) == [i \in 1..num |-> ((i - 1) * stop) \div (num - 1)]

NoSimulation == [x |-> <<>>, y |-> <<>>, status |-> None, success |-> FALSE]
NoTable == [columns |-> <<>>, data |-> <<>>]

\* PFR.__init__.  attrs holds the names of the attributes that later
\* methods create.
PFR__init__(m, reactor_length, transversal_area, grid_size) ==
    [mix |-> m,
     reactor_length |-> reactor_length,
     transversal_area |-> transversal_area,
     initial_grid_size |-> grid_size,
     grid_size |-> grid_size,
     z |-> <<>>,
     mass_profile |-> <<>>,
     mole_fraction_profile |-> <<>>,
     temperature_profile |-> <<>>,
     refrigerant_temperature_profile |-> <<>>,
     pressure_profile |-> <<>>,
     r_rates_profile |-> <<>>,
     attrs |-> {},
     initial_variables_profile |-> <<>>,
     mass_bc |-> <<>>,
     temperature_bc |-> <<>>,
     pressure_bc |-> <<>>,
     inlet_conditions |-> <<>>,
     outlet_conditions |-> <<>>,
     in_index |-> <<>>,
     out_index |-> <<>>,
     simulation |-> NoSimulation,
     sim_df |-> NoTable]

\* PFR.initial_profile_builder
initial_profile_builder_extra_node(r, mb, eb, pb) ==
    LET z == Linspace(r.reactor_length, r.grid_size + 1)
        mass == MolarFlow_initial_profile(mb, r.grid_size)
        energy == Energy_initial_profile(eb, r.grid_size)
        pressure == Ergun_initial_profile(pb, r.grid_size)
    IN  [r EXCEPT
            !.z = z,
            !.mass_profile = mass,
            !.temperature_profile = energy[1],
            !.refrigerant_temperature_profile = energy[2],
            !.pressure_profile = pressure,
            !.initial_variables_profile = mass \o energy \o <<pressure>>,
            !.attrs = @ \cup {"initial_variables_profile"}]
initial_profile_builder(r, mb, eb, pb) ==
    LET z == Linspace(r.reactor_length, r.grid_size)
        mass == MolarFlow_initial_profile(mb, r.grid_size)
        energy == Energy_initial_profile(eb, r.grid_size)
        pressure == Ergun_initial_profile(pb, r.grid_size)
    IN  [r EXCEPT
            !.z = z,
            !.mass_profile = mass,
            !.temperature_profile = energy[1],
            !.refrigerant_temperature_profile = energy[2],
            !.pressure_profile = pressure,
            !.initial_variables_profile = mass \o energy \o <<pressure>>,
            !.attrs = @ \cup {"initial_variables_profile"}]

\* PFR.border_conditions_builder.  The index of the specified entries:
\* numpy.argwhere(numpy.not_equal(conditions, None)).ravel()
IndexBuilderTruthy(conditions) ==
    ArgwhereNotNone([i \in 1..Len(conditions) |->
                        IF Truthy(conditions[i]) THEN conditions[i] ELSE None], 1)
IndexBuilder(conditions) == ArgwhereNotNone(conditions, 1)

border_conditions_builder_pressure_first(r, mb, eb, pb) ==
    LET mass_bc == MolarFlow_border_conditions(mb)
        temperature_bc == Energy_border_conditions(eb)
        pressure_bc == Ergun_border_conditions(pb)
        inlet == NpAppend(NpAppend(mass_bc[1], <<pressure_bc[1]>>), temperature_bc[1])
        outlet == NpAppend(NpAppend(mass_bc[2], <<pressure_bc[2]>>), temperature_bc[2])
    IN  [r EXCEPT
            !.mass_bc = mass_bc,
            !.temperature_bc = temperature_bc,
            !.pressure_bc = pressure_bc,
            !.inlet_conditions = inlet,
            !.outlet_conditions = outlet,
            !.in_index = IndexBuilder(inlet),
            !.out_index = IndexBuilder(outlet),
            !.attrs = @ \cup {"mass_bc", "temperature_bc", "pressure_bc",
                              "inlet_conditions", "outlet_conditions",
                              "_in_index", "_out_index"}]
border_conditions_builder(r, mb, eb, pb) ==
    LET mass_bc == MolarFlow_border_conditions(mb)
        temperature_bc == Energy_border_conditions(eb)
        pressure_bc == Ergun_border_conditions(pb)
        inlet == NpAppend(NpAppend(mass_bc[1], temperature_bc[1]), <<pressure_bc[1]>>)
        outlet == NpAppend(NpAppend(mass_bc[2], temperature_bc[2]), <<pressure_bc[2]>>)
    IN  [r EXCEPT
            !.mass_bc = mass_bc,
            !.temperature_bc = temperature_bc,
            !.pressure_bc = pressure_bc,
            !.inlet_conditions = inlet,
            !.outlet_conditions = outlet,
            !.in_index = IndexBuilder(inlet),
            !.out_index = IndexBuilder(outlet),
            !.attrs = @ \cup {"mass_bc", "temperature_bc", "pressure_bc",
                              "inlet_conditions", "outlet_conditions",
                              "_in_index", "_out_index"}]

\* PFR.border_conditions: the residuals, inlet rows first.
border_conditions_outlet_first(r, ya, yb) ==
    [j \in 1..Len(r.out_index) |->
        yb[r.out_index[j] + 1] - r.outlet_conditions[r.out_index[j] + 1]]
    \o
    [i \in 1..Len(r.in_index) |->
        ya[r.in_index[i] + 1] - r.inlet_conditions[r.in_index[i] + 1]]
border_conditions(r, ya, yb) ==
    [i \in 1..Len(r.in_index) |->
        ya[r.in_index[i] + 1] - r.inlet_conditions[r.in_index[i] + 1]]
    \o
    [j \in 1..Len(r.out_index) |->
        yb[r.out_index[j] + 1] - r.outlet_conditions[r.out_index[j] + 1]]

\* Ergun.evaluate_balance.  u at node c is
\* sum(mass_profile[:, c]) * mix_molecular_weight(mole_fraction_profile[:, c])
\*     / m_rho[c] / 1000 / transversal_area
\* and the pressure gradient at a node is
\* -u / dp * (1 - phi) / phi**3 * (150 * (1 - phi) * mu / dp + 1.75 * u * m_rho)
\* with the node's mu and m_rho and with the u of the first node.
SuperficialVelocity(r, m_rho, c) ==
    FDiv(FDiv(FDiv(FMul(Float(SeqSum(Column(r.mass_profile, c))),
                        mix_molecular_weight(r.mix,
                            Column(r.mole_fraction_profile, c))),
                   m_rho[c]),
              Float(1000)),
         Float(r.transversal_area))

ErgunGradient(u, mu, m_rho, phi, dp) ==
    FMul(FDiv(FMul(FDiv(FNeg(u), dp), FAdd(Float(1), FNeg(phi))),
              FMul(phi, FMul(phi, phi))),
         FAdd(FDiv(FMul(FMul(Float(150), FAdd(Float(1), FNeg(phi))), mu), dp),
              FMul(FMul(Ratio(7, 4), u), m_rho)))

Ergun_evaluate_balance(self, r) ==
    LET phi == Float(self.porosity)
        dp == Float(self.particle_diameter)
        m_rho == mass_density(r.mix, r.mole_fraction_profile,
                              r.temperature_profile, r.pressure_profile)
        mu == mix_viscosity(r.mix, r.mole_fraction_profile,
                            r.temperature_profile, r.pressure_profile)
    IN  Bind(SuperficialVelocity(r, m_rho, 1), LAMBDA u :
          [c \in 1..Len(m_rho) |-> ErgunGradient(u, mu[c], m_rho[c], phi, dp)])

\* PFR.evaluate_balances: the exception raised, the reactor with the fields
\* the call has cached on it, and the gradients returned.  The mole-fraction
\* profile, one row per substance and one column per node, goes to the
\* vectorized kinetic_eval as it is.
evaluate_balances_previous_mass(r, kin, mb, eb, pb, z, variables) ==
    LET n == MixLen(r.mix)
        rows == Len(variables)
        mass == SubSeq(variables, 1, n)
        temperature == variables[rows - 2]
        refrigerant == variables[rows - 1]
        pressure == variables[rows]
    IN  Bind([r EXCEPT !.z = z,
                       !.grid_size = Len(z),
                       !.mass_profile = mass,
                       !.temperature_profile = temperature,
                       !.refrigerant_temperature_profile = refrigerant,
                       !.pressure_profile = pressure,
                       !.mole_fraction_profile = mole_fractions(mass)],
             LAMBDA unstacked :
          Bind(kinetic_eval_vectorized(kin, unstacked.mole_fraction_profile,
                                       temperature, pressure),
               LAMBDA r_rates :
            IF r_rates.exc # "none"
            THEN [exc |-> r_rates.exc, reactor |-> unstacked,
                  gradients |-> <<>>]
            ELSE Bind([unstacked EXCEPT
                         !.r_rates_profile =
                             <<r_rates.rates_i, r_rates.reaction_rates>>],
                      LAMBDA evaluated :
                   [exc |-> "none", reactor |-> evaluated,
                    gradients |->
                        MolarFlow_evaluate_balance(r_rates.rates_i)
                        \o Energy_evaluate_balance(eb, Len(z))
                        \o <<Ergun_evaluate_balance(pb,
                                 IF r.mass_profile = <<>> THEN evaluated
                                 ELSE [evaluated EXCEPT
                                          !.mass_profile = r.mass_profile])>>])))
evaluate_balances(r, kin, mb, eb, pb, z, variables) ==
    LET n == MixLen(r.mix)
        rows == Len(variables)
        mass == SubSeq(variables, 1, n)
        temperature == variables[rows - 2]
        refrigerant == variables[rows - 1]
        pressure == variables[rows]
    IN  Bind([r EXCEPT !.z = z,
                       !.grid_size = Len(z),
                       !.mass_profile = mass,
                       !.temperature_profile = temperature,
                       !.refrigerant_temperature_profile = refrigerant,
                       !.pressure_profile = pressure,
                       !.mole_fraction_profile = mole_fractions(mass)],
             LAMBDA unstacked :
          Bind(kinetic_eval_vectorized(kin, unstacked.mole_fraction_profile,
                                       temperature, pressure),
               LAMBDA r_rates :
            IF r_rates.exc # "none"
            THEN [exc |-> r_rates.exc, reactor |-> unstacked,
                  gradients |-> <<>>]
            ELSE Bind([unstacked EXCEPT
                         !.r_rates_profile =
                             <<r_rates.rates_i, r_rates.reaction_rates>>],
                      LAMBDA evaluated :
                   [exc |-> "none", reactor |-> evaluated,
                    gradients |->
                        MolarFlow_evaluate_balance(r_rates.rates_i)
                        \o Energy_evaluate_balance(eb, Len(z))
                        \o <<Ergun_evaluate_balance(pb, evaluated)>>])))

\* PFR.simulate, first statement: the grid size is set back.
simulate_reset_kept(r) == r
simulate_reset(r) == [r EXCEPT !.grid_size = r.initial_grid_size]

\* PFR.simulate: the solver's result is kept on the reactor.
simulate_store_dropped(r, solution) == r
simulate_store(r, solution) ==
    [r EXCEPT !.simulation = solution, !.attrs = @ \cup {"simulation"}]

\* PFR.simulate, packaging: numpy.vstack((x, y)).T under the column names.
Transpose(matrix) ==
    IF matrix = <<>> THEN <<>>
    ELSE [c \in 1..Len(matrix[1]) |-> [row \in 1..Len(matrix) |-> matrix[row][c]]]

simulate_package_untransposed(r) ==
    LET result == <<r.simulation.x>> \o r.simulation.y
        columns == NpAppend(NpAppend(<<"z">>, r.mix.names),
                            <<"temperature", "refrigerant_temperature", "pressure">>)
    IN  [r EXCEPT !.sim_df = [columns |-> columns, data |-> result],
                  !.attrs = @ \cup {"_sim_df"}]
simulate_package(r) ==
    LET result == <<r.simulation.x>> \o r.simulation.y
        columns == NpAppend(NpAppend(<<"z">>, r.mix.names),
                            <<"temperature", "refrigerant_temperature", "pressure">>)
    IN  [r EXCEPT !.sim_df = [columns |-> columns, data |-> Transpose(result)],
                  !.attrs = @ \cup {"_sim_df"}]

\* The statements of PFR.simulate, in program order.
SimulateStepsSolveEarly ==
    <<"reset", "initial_profile_builder", "solve_bvp",
      "border_conditions_builder", "package">>
SimulateSteps ==
    <<"reset", "initial_profile_builder", "border_conditions_builder",
      "solve_bvp", "package">>

-----------------------------------------------------------------------------
(* The external solver, scipy.integrate.solve_bvp.  While it runs it calls *)
(* fun(x, y) and bc(y[:, 0], y[:, -1]) on trial meshes and trial states of *)
(* its choice, and it returns a mesh, a state and a status: 0 converged,   *)
(* 1 the node limit was exceeded, 2 a singular Jacobian was met.           *)

SolverStatuses == {0, 1, 2}
TrialIds == 1..NumTrials

\* The trial state k on a mesh of m nodes; every entry differs.
TrialState(rows, k, m) ==
    [row \in 1..rows |-> [c \in 1..m |-> 100 * k + 10 * row + c]]

Solution(x, y, status) ==
    [x |-> x, y |-> y, status |-> status, success |-> status = 0]

NoRet == [op |-> "none", exc |-> "none", ya |-> <<>>, yb |-> <<>>, value |-> <<>>]
NoSolver == [active |-> FALSE, x |-> <<>>, y |-> <<>>]

NRows == MixLen(reactor.mix) + 3

StepIs(name) == ~solver.active /\ SimulateSteps[pc] = name
NextPc == IF pc = Len(SimulateSteps) THEN 1 ELSE pc + 1

SimulateReset ==
    /\ StepIs("reset")
    /\ reactor' = simulate_reset(reactor)
    /\ pc' = NextPc
    /\ phase' = "uninitialized"
    /\ built' = {}
    /\ ret' = NoRet
    /\ UNCHANGED <<ergunVars, kinVars, mass_balance, energy_balance, solver>>

SimulateInitialProfile ==
    /\ StepIs("initial_profile_builder")
    /\ reactor' = initial_profile_builder(reactor, mass_balance, energy_balance, ergun[1])
    /\ pc' = NextPc
    /\ phase' = "profile-built"
    /\ built' = built \cup {"profile"}
    /\ UNCHANGED <<ergunVars, kinVars, mass_balance, energy_balance, solver, ret>>

SimulateBorderConditions ==
    /\ StepIs("border_conditions_builder")
    /\ reactor' = border_conditions_builder(reactor, mass_balance, energy_balance, ergun[1])
    /\ pc' = NextPc
    /\ phase' = "boundary-built"
    /\ built' = built \cup {"boundary"}
    /\ UNCHANGED <<ergunVars, kinVars, mass_balance, energy_balance, solver, ret>>

\* solve_bvp is entered with x = self.z and y = self.initial_variables_profile.
SolveBvpInvoke ==
    /\ StepIs("solve_bvp")
    /\ solver' = [active |-> TRUE, x |-> reactor.z,
                  y |-> reactor.initial_variables_profile]
    /\ phase' = "solving"
    /\ UNCHANGED <<ergunVars, kinVars, mass_balance, energy_balance, reactor, pc,
                   built, ret>>

\* The solver calls fun = self.evaluate_balances.  An exception raised in
\* it leaves solve_bvp, and simulate, at once.
SolverCallsFun(k, m) ==
    /\ solver.active
    /\ \E e \in {evaluate_balances(reactor, kinetics[1], mass_balance,
                                   energy_balance, ergun[1],
                                   Linspace(reactor.reactor_length, m),
                                   TrialState(NRows, k, m))} :
          /\ reactor' = e.reactor
          /\ IF e.exc = "none"
             THEN /\ ret' = [NoRet EXCEPT !.op = "evaluate_balances",
                                          !.value = e.gradients]
                  /\ UNCHANGED <<pc, solver, phase>>
             ELSE /\ ret' = [NoRet EXCEPT !.op = "simulate", !.exc = e.exc]
                  /\ solver' = NoSolver
                  /\ pc' = 1
                  /\ phase' = "failed"
    /\ UNCHANGED <<ergunVars, kinVars, mass_balance, energy_balance, built>>

\* The solver calls bc = self.border_conditions.
SolverCallsBc(k, m) ==
    LET y == TrialState(NRows, k, m)
        ya == Column(y, 1)
        yb == Column(y, m)
    IN  /\ solver.active
        /\ ret' = [op |-> "border_conditions", exc |-> "none", ya |-> ya, yb |-> yb,
                   value |-> border_conditions(reactor, ya, yb)]
        /\ UNCHANGED <<ergunVars, kinVars, mass_balance, energy_balance, reactor, pc,
                       solver, phase, built>>

\* The solver returns; simulate keeps what it returned.
SolveBvpReturn(k, m, status) ==
    /\ solver.active
    /\ reactor' = simulate_store(reactor,
                      Solution(Linspace(reactor.reactor_length, m),
                               TrialState(NRows, k, m), status))
    /\ solver' = NoSolver
    /\ pc' = NextPc
    /\ phase' = IF status = 0 THEN "converged" ELSE "failed"
    /\ ret' = NoRet
    /\ UNCHANGED <<ergunVars, kinVars, mass_balance, energy_balance, built>>

SimulatePackage ==
    /\ StepIs("package")
    /\ reactor' = simulate_package(reactor)
    /\ pc' = NextPc
    /\ UNCHANGED <<ergunVars, kinVars, mass_balance, energy_balance, solver, phase,
                   built, ret>>

\* border_conditions_builder and border_conditions called on their own.
CallBorderConditionsBuilder ==
    /\ pc = 1 /\ ~solver.active
    /\ reactor' = border_conditions_builder(reactor, mass_balance, energy_balance, ergun[1])
    /\ built' = built \cup {"boundary"}
    /\ ret' = NoRet
    /\ UNCHANGED <<ergunVars, kinVars, mass_balance, energy_balance, pc, solver, phase>>

CallBorderConditions(k, m) ==
    LET y == TrialState(NRows, k, m)
        ya == Column(y, 1)
        yb == Column(y, m)
    IN  /\ pc = 1 /\ ~solver.active
        /\ ret' = IF "_in_index" \in reactor.attrs
                  THEN [op |-> "border_conditions", exc |-> "none",
                        ya |-> ya, yb |-> yb,
                        value |-> border_conditions(reactor, ya, yb)]
                  ELSE [op |-> "border_conditions", exc |-> "AttributeError",
                        ya |-> ya, yb |-> yb, value |-> <<>>]
        /\ UNCHANGED <<ergunVars, kinVars, mass_balance, energy_balance, reactor, pc,
                       solver, phase, built>>

-----------------------------------------------------------------------------
(* Specifications *)

\* The Kinetics of test_fogler_p1_15a: A -> B at a constant rate.
TestKinetics ==
    Kinetics__init__(<<[k |-> 1, order |-> 0]>>, MixAB, [shape |-> <<2>>, flat |-> <<-1, 1>>],
                     StrConcentration).obj

\* An Ergun balance with the inlet pressure given.
TestErguns == {Ergun__init__({<<"in", MaxPressure>>}, MaxPorosity, 1).obj}

PlainErguns == {<<e>> : e \in {x \in ErgunObjects :
                                  x.porosity = 1 /\ x.particle_diameter = 1}}

InitPFR(masses, energies, erguns, grids) ==
    /\ ergun \in erguns
    /\ ergun_last = NoErgunOp
    /\ kinetics = TestKinetics
    /\ kin_last = NoKinOp
    /\ mass_balance \in masses
    /\ energy_balance \in energies
    /\ reactor \in {PFR__init__(MixAB, len, area, g) :
                      len \in ReactorLengths, area \in TransversalAreas, g \in grids}
    /\ pc = 1
    /\ solver = NoSolver
    /\ phase = "uninitialized"
    /\ built = {}
    /\ ret = NoRet

\* A reactor as the tests build it, simulated again and again.
Init == InitPFR(TestMassBalances, TestEnergyBalances, TestErguns, GridSizes)

Next ==
    \/ SimulateReset
    \/ SimulateInitialProfile
    \/ SimulateBorderConditions
    \/ SolveBvpInvoke
    \/ \E k \in TrialIds, m \in reactor.initial_grid_size..MaxNodes : SolverCallsFun(k, m)
    \/ \E k \in TrialIds : SolverCallsBc(k, MaxNodes)
    \/ \E k \in TrialIds, m \in reactor.initial_grid_size..MaxNodes,
          status \in SolverStatuses : SolveBvpReturn(k, m, status)
    \/ SimulatePackage

Spec == Init /\ [][Next]_vars

\* Every boundary specification, assembled and evaluated.
InitBC == InitPFR(MassBalances, EnergyBalances, PlainErguns, {2})

NextBC ==
    \/ CallBorderConditionsBuilder
    \/ \E k \in TrialIds : CallBorderConditions(k, MaxNodes)

SpecBC == InitBC /\ [][NextBC]_vars

\* An Ergun balance, constructed and queried.
InitErgun ==
    /\ InitPFR({CHOOSE b \in TestMassBalances : TRUE}, TestEnergyBalances,
               {NoObject}, {2})

NextErgun ==
    \/ \E d \in PressureDicts, p \in Porosities, dp \in ParticleDiameters :
          ErgunInit(d, p, dp)
    \/ \E g \in GridSizes : ErgunInitialProfile(g)
    \/ ErgunBorderConditions

SpecErgun == InitErgun /\ [][NextErgun]_vars

\* A Kinetics, constructed, and its mixture replaced through the reactor.
KineticsArgs(mixes) ==
    {[NoKinArg EXCEPT !.list_of_reactions = rs, !.mix = m,
                      !.stoichiometry = st, !.kinetic_argument = arg] :
        rs \in ReactionLists, m \in mixes, st \in Stoichiometries,
        arg \in KineticArguments}

InitKinetics ==
    /\ ergun \in {CHOOSE e \in TestErguns : TRUE}
    /\ ergun_last = NoErgunOp
    /\ kinetics = NoObject
    /\ kin_last \in {[NoKinOp EXCEPT !.arg = a] : a \in KineticsArgs(Mixes)}
    /\ mass_balance \in {CHOOSE b \in TestMassBalances : TRUE}
    /\ energy_balance \in TestEnergyBalances
    /\ reactor = PFR__init__(MixAB, CHOOSE len \in ReactorLengths : TRUE,
                             CHOOSE area \in TransversalAreas : TRUE, 2)
    /\ pc = 1
    /\ solver = NoSolver
    /\ phase = "uninitialized"
    /\ built = {}
    /\ ret = NoRet

NextKinetics ==
    \/ KineticsInit
    \/ \E m \in Mixes : ReactorBaseSetMix(m)
    \/ ReactorBaseGetKineticArgument
    \/ \E v \in {StrConcentration, StrPartialPressure} :
          ReactorBaseSetKineticArgument(v)

SpecKinetics == InitKinetics /\ [][NextKinetics]_vars

\* A Kinetics with a valid argument, as many stoichiometry columns as its
\* mixture has substances and one stoichiometry row per rate function,
\* constructed and evaluated on inputs drawn with it.
EvalKineticsArgs ==
    UNION {{[NoKinArg EXCEPT !.list_of_reactions = rs, !.mix = m,
                             !.stoichiometry = st, !.kinetic_argument = arg] :
              st \in {x \in Stoichiometries :
                        \/ NpShape(x) = <<Len(rs), MixLen(m)>>
                        \/ Len(rs) = 1 /\ NpShape(x) = <<MixLen(m)>>},
              arg \in {StrConcentration, StrPartialPressure}} :
             rs \in ReactionLists, m \in Mixes}

InitKineticEval ==
    /\ ergun \in {CHOOSE e \in TestErguns : TRUE}
    /\ ergun_last = NoErgunOp
    /\ kinetics = NoObject
    /\ kin_last \in
          UNION {{[NoKinOp EXCEPT
                     !.arg = [a EXCEPT !.layout = i.layout, !.moles = i.moles,
                                       !.temperature = i.temperature,
                                       !.pressure = i.pressure]] :
                    i \in EvalInputs(MixLen(a.mix))} : a \in EvalKineticsArgs}
    /\ mass_balance \in {CHOOSE b \in TestMassBalances : TRUE}
    /\ energy_balance \in TestEnergyBalances
    /\ reactor = PFR__init__(MixAB, CHOOSE len \in ReactorLengths : TRUE,
                             CHOOSE area \in TransversalAreas : TRUE, 2)
    /\ pc = 1
    /\ solver = NoSolver
    /\ phase = "uninitialized"
    /\ built = {}
    /\ ret = NoRet

NextKineticEval ==
    \/ KineticsInit
    \/ KineticEval
    \/ KineticEvalBatch
    \/ ReactionEnthalpies

SpecKineticEval == InitKineticEval /\ [][NextKineticEval]_vars

\* A mixture and a moles array of one or two nodes, of which the mole
\* fractions are taken.
MolesArrays(substances) ==
    UNION {[1..substances -> [1..nodes -> 0..MaxMoles]] : nodes \in {1, 2}}

InitMix ==
    /\ ergun \in {CHOOSE e \in TestErguns : TRUE}
    /\ ergun_last = NoErgunOp
    /\ kinetics = NoObject
    /\ kin_last \in
          UNION {{[NoKinOp EXCEPT
                     !.arg = [NoKinArg EXCEPT !.mix = m, !.layout = "substances",
                                              !.moles = moles]] :
                    moles \in MolesArrays(MixLen(m))} : m \in Mixes}
    /\ mass_balance \in {CHOOSE b \in TestMassBalances : TRUE}
    /\ energy_balance \in TestEnergyBalances
    /\ reactor = PFR__init__(MixAB, CHOOSE len \in ReactorLengths : TRUE,
                             CHOOSE area \in TransversalAreas : TRUE, 2)
    /\ pc = 1
    /\ solver = NoSolver
    /\ phase = "uninitialized"
    /\ built = {}
    /\ ret = NoRet

NextMix ==
    \/ MoleFractionsProfile
    \/ \E c \in {1, 2} : MolFracationsNode(c)

SpecMix == InitMix /\ [][NextMix]_vars

\* The values assigned to reactor.kinetics: Kinetics instances, one per
\* mixture and argument mode; objects of another class holding the very
\* same attributes; and None.
KineticsInstances ==
    {Kinetics__init__(<<[k |-> 1, order |-> 0]>>, m,
                      [shape |-> <<MixLen(m)>>,
                       flat |-> [s \in 1..MixLen(m) |->
                                   IF s = 1 THEN -1 ELSE IF s = 2 THEN 1 ELSE 0]],
                      arg).obj :
        m \in Mixes, arg \in {StrConcentration, StrPartialPressure}}

KineticsValues ==
    {[class |-> c, ref |-> k] : c \in {"Kinetics", "object"},
                               k \in KineticsInstances}
    \cup {[class |-> "NoneType", ref |-> NoObject]}

\* A reactor whose kinetics is assigned, and read and changed through the
\* reactor's properties.
InitReactorBase ==
    /\ ergun \in {CHOOSE e \in TestErguns : TRUE}
    /\ ergun_last = NoErgunOp
    /\ kinetics = NoObject
    /\ kin_last = NoKinOp
    /\ mass_balance \in {CHOOSE b \in TestMassBalances : TRUE}
    /\ energy_balance \in TestEnergyBalances
    /\ reactor = PFR__init__(MixAB, CHOOSE len \in ReactorLengths : TRUE,
                             CHOOSE area \in TransversalAreas : TRUE, 2)
    /\ pc = 1
    /\ solver = NoSolver
    /\ phase = "uninitialized"
    /\ built = {}
    /\ ret = NoRet

NextReactorBase ==
    \/ \E v \in KineticsValues : ReactorBaseSetKinetics(v)
    \/ \E m \in Mixes : ReactorBaseSetMix(m)
    \/ \E v \in {StrConcentration, StrPartialPressure} :
          ReactorBaseSetKineticArgument(v)

SpecReactorBase == InitReactorBase /\ [][NextReactorBase]_vars

-----------------------------------------------------------------------------
(* Properties *)

\* The (inlet, outlet) values the balances specify, in state-row order.
SpecifiedInlet ==
    MolarFlow_border_conditions(mass_balance)[1]
    \o Energy_border_conditions(energy_balance)[1]
    \o <<Ergun_border_conditions(ergun[1])[1]>>
SpecifiedOutlet ==
    MolarFlow_border_conditions(mass_balance)[2]
    \o Energy_border_conditions(energy_balance)[2]
    \o <<Ergun_border_conditions(ergun[1])[2]>>

Ascending(s) == \A i, j \in 1..Len(s) : i < j => s[i] < s[j]

BcReturned == ret.op = "border_conditions" /\ ret.exc = "none"

\* C1: border_conditions(ya, yb) returns, for every row index flagged
\* inlet-constrained, ya[idx] - inlet_conditions[idx] and, for every row
\* index flagged outlet-constrained, yb[idx] - outlet_conditions[idx]: all
\* inlet residuals first, in ascending row order, then all outlet residuals,
\* in ascending row order.
C1_BorderConditionsResiduals ==
    BcReturned =>
        LET ins == reactor.in_index
            outs == reactor.out_index
        IN  /\ Len(ret.value) = Len(ins) + Len(outs)
            /\ Ascending(ins) /\ Ascending(outs)
            /\ \A i \in 1..Len(ins) :
                  ret.value[i] =
                      ret.ya[ins[i] + 1] - reactor.inlet_conditions[ins[i] + 1]
            /\ \A j \in 1..Len(outs) :
                  ret.value[Len(ins) + j] =
                      ret.yb[outs[j] + 1] - reactor.outlet_conditions[outs[j] + 1]

\* C1 witness: residuals were returned for a mixed specification with at
\* least one inlet row and at least two outlet rows.
C1_Witness ==
    /\ BcReturned
    /\ Len(reactor.in_index) >= 1
    /\ Len(reactor.out_index) >= 2

\* The residual terms that row takes from ya, and those it takes from yb.
InletTerms(row) ==
    {i \in 1..Len(reactor.in_index) :
        /\ reactor.in_index[i] = row - 1
        /\ i <= Len(ret.value)
        /\ ret.value[i] = ret.ya[row] - SpecifiedInlet[row]}
OutletTerms(row) ==
    {j \in 1..Len(reactor.out_index) :
        /\ reactor.out_index[j] = row - 1
        /\ Len(reactor.in_index) + j <= Len(ret.value)
        /\ ret.value[Len(reactor.in_index) + j] = ret.yb[row] - SpecifiedOutlet[row]}

SpecifiedCount ==
    Cardinality({row \in 1..NRows : SpecifiedInlet[row] # None})
    + Cardinality({row \in 1..NRows : SpecifiedOutlet[row] # None})

\* C2: after border_conditions_builder, a row with only an inlet value
\* contributes exactly one residual term, from ya; a row with only an outlet
\* value exactly one, from yb; a row with both exactly two, one from each
\* edge; a row with neither none.
C2_TermsPerRow ==
    BcReturned =>
        /\ Len(ret.value) = SpecifiedCount
        /\ \A row \in 1..NRows :
              /\ Cardinality(InletTerms(row)) =
                    IF SpecifiedInlet[row] # None THEN 1 ELSE 0
              /\ Cardinality(OutletTerms(row)) =
                    IF SpecifiedOutlet[row] # None THEN 1 ELSE 0

\* C2 witness: residuals were returned for a specification with an
\* inlet-only row of value 0, a row with both values, an outlet-only row and
\* a row with neither.
C2_Witness ==
    /\ BcReturned
    /\ SpecifiedInlet[1] = 0 /\ SpecifiedOutlet[1] = None
    /\ SpecifiedInlet[2] # None /\ SpecifiedOutlet[2] # None
    /\ SpecifiedInlet[4] = None /\ SpecifiedOutlet[4] # None
    /\ SpecifiedInlet[3] = None /\ SpecifiedOutlet[3] = None

PhaseOrder ==
    { <<"uninitialized", "profile-built">>,
      <<"profile-built", "boundary-built">>,
      <<"boundary-built", "solving">>,
      <<"solving", "converged">>,
      <<"solving", "failed">>,
      <<"converged", "uninitialized">>,
      <<"failed", "uninitialized">> }

BuiltBeforeSolving ==
    /\ ("boundary" \in built => "profile" \in built)
    /\ (solver.active \/ ret.op \in {"evaluate_balances", "border_conditions"}) =>
          /\ phase = "solving"
          /\ built = {"profile", "boundary"}
          /\ {"initial_variables_profile", "inlet_conditions", "outlet_conditions",
              "_in_index", "_out_index"} \subseteq reactor.attrs

\* C3: a simulate call passes through the phases uninitialized,
\* profile-built, boundary-built, solving, converged or failed, in that
\* order; the solver is invoked, and calls evaluate_balances or
\* border_conditions, only after both builders have completed in that call.
C3_SimulatePhases ==
    /\ [][phase' # phase => <<phase, phase'>> \in PhaseOrder]_vars
    /\ []BuiltBeforeSolving

\* C3 witness: in a second simulate call the solver has called
\* evaluate_balances.
C3_Witness ==
    /\ solver.active
    /\ ret.op = "evaluate_balances"
    /\ "_sim_df" \in reactor.attrs

\* C4: a failed solve is told apart from a converged one on the reactor:
\* the solver's result kept in reactor.simulation carries the failure status
\* of the solve that the results table was populated from.
C4_FailureIsSurfaced ==
    /\ (phase = "failed" /\ ret.exc = "none") =>
          /\ "simulation" \in reactor.attrs
          /\ ~reactor.simulation.success
          /\ reactor.simulation.status \in SolverStatuses \ {0}
    /\ phase = "converged" =>
          /\ "simulation" \in reactor.attrs
          /\ reactor.simulation.success
          /\ reactor.simulation.status = 0
    /\ ("_sim_df" \in reactor.attrs /\ SimulateSteps[pc] # "package") =>
          reactor.sim_df.data =
              Transpose(<<reactor.simulation.x>> \o reactor.simulation.y)

\* C4 witness: simulate has returned after a failed solve and the results
\* table is populated from it.
C4_Witness ==
    /\ phase = "failed"
    /\ pc = 1
    /\ reactor.sim_df.data # <<>>
    /\ reactor.simulation.status = 1

RowsHave(matrix, rows, columns) ==
    /\ Len(matrix) = rows
    /\ \A row \in 1..rows : Len(matrix[row]) = columns

\* C5: every simulate call sets the grid size back to the configured one and
\* rebuilds the grid and the seed profiles from it, whatever mesh earlier
\* calls left on the reactor; the mesh handed to the solver has the
\* configured number of nodes.
C5_GridReset ==
    LET g == reactor.initial_grid_size
    IN  /\ (phase \in {"profile-built", "boundary-built"}
            \/ (phase = "solving" /\ ret.op = "none")) =>
              /\ reactor.grid_size = g
              /\ reactor.z = Linspace(reactor.reactor_length, g)
              /\ RowsHave(reactor.initial_variables_profile, NRows, g)
              /\ RowsHave(reactor.mass_profile, MixLen(reactor.mix), g)
              /\ Len(reactor.temperature_profile) = g
              /\ Len(reactor.refrigerant_temperature_profile) = g
              /\ Len(reactor.pressure_profile) = g
        /\ phase \in {"boundary-built", "solving"} =>
              /\ Len(reactor.inlet_conditions) = NRows
              /\ Len(reactor.outlet_conditions) = NRows
        /\ solver.active =>
              /\ solver.x = Linspace(reactor.reactor_length, g)
              /\ Len(solver.x) = g
              /\ RowsHave(solver.y, NRows, g)

\* C5 witness: the solver is entered in a later simulate call, after an
\* earlier one evaluated the balances on a mesh finer than the configured one.
C5_Witness ==
    /\ solver.active
    /\ ret.op = "none"
    /\ reactor.mole_fraction_profile # <<>>
    /\ Len(reactor.mole_fraction_profile[1]) > reactor.initial_grid_size

\* C6: after the mixture is replaced through the reactor's mix setter, the
\* reactor's mix, the Kinetics' mix, the composition calculator and the
\* standard reaction enthalpies all refer to the new mixture.
C6_MixReplacedForAllConsumers ==
    kin_last.op = "set_mix" =>
        LET new_mix == kin_last.arg.mix
            k == kinetics[1]
        IN  /\ ReactorBase_mix = new_mix
            /\ k.mix = new_mix
            /\ k.composition_calculator.mix = new_mix
            /\ k.std_reaction_enthalpies =
                  StdReactionEnthalpies(k.stoichiometry, new_mix).value

Given(d, key) == \E p \in d : p[1] = key

\* C7: constructing an Ergun balance with both an inlet and an outlet
\* pressure given raises ValueError, for every pair of values; with exactly
\* one of them given the construction succeeds.
C7_BothPressuresRaise ==
    ergun_last.op = "__init__" =>
        LET d == ergun_last.arg.pressure
        IN  /\ (Given(d, "in") /\ Given(d, "out")) =>
                  (ergun_last.exc = "ValueError" /\ ergun = NoObject)
            /\ (Given(d, "in") # Given(d, "out")) =>
                  (ergun_last.exc = "none" /\ ergun # NoObject)

ExactlyOne(a, b) == (a # None) # (b # None)

\* C8: every constructed Ergun balance has exactly one of its inlet and
\* outlet pressures specified; border_conditions returns a pair with exactly
\* one entry that is not None and initial_profile a profile of grid_size
\* nodes filled with the specified value.
C8_ExactlyOnePressure ==
    ergun # NoObject =>
        LET e == ergun[1]
            value == IF e.inlet_pressure # None
                     THEN e.inlet_pressure ELSE e.outlet_pressure
        IN  /\ ExactlyOne(e.inlet_pressure, e.outlet_pressure)
            /\ ergun_last.op = "border_conditions" =>
                  ExactlyOne(ergun_last.ret[1], ergun_last.ret[2])
            /\ ergun_last.op = "initial_profile" =>
                  ergun_last.ret = NpFull(ergun_last.arg.grid_size, value)

Constructed == kin_last.op = "__init__"

\* s is t up to the case of its letters, t being in lower case.
LowerCases(s, t) ==
    /\ Len(s) = Len(t)
    /\ \A i \in 1..Len(s) :
          \/ s[i] = t[i]
          \/ (s[i] \in DOMAIN UpperToLower /\ UpperToLower[s[i]] = t[i])

\* C9 as stated: a kinetic-argument string that is neither "concentration"
\* nor "partial_pressure" makes the construction fail with ValueError; with
\* one of the two the composition calculator is the mixture's concentrations,
\* respectively partial_pressures.
C9_ExactStringRequired ==
    Constructed =>
        LET arg == kin_last.arg.kinetic_argument
        IN  /\ arg \notin {StrConcentration, StrPartialPressure} =>
                  (kin_last.exc = "ValueError" /\ kinetics = NoObject)
            /\ (kinetics # NoObject /\ arg = StrConcentration) =>
                  kinetics[1].composition_calculator =
                      [method |-> "concentrations", mix |-> kin_last.arg.mix]
            /\ (kinetics # NoObject /\ arg = StrPartialPressure) =>
                  kinetics[1].composition_calculator =
                      [method |-> "partial_pressures", mix |-> kin_last.arg.mix]

\* C9, amended: the string is compared without regard to case.  A string
\* that is neither "concentration" nor "partial_pressure" in any casing makes
\* the construction fail with ValueError; with "concentration" in any casing
\* a constructed Kinetics has the mixture's concentrations as its composition
\* calculator, with "partial_pressure" in any casing its partial_pressures,
\* and neither string makes the construction fail.
C9_CaseInsensitiveArgument ==
    Constructed =>
        LET arg == kin_last.arg.kinetic_argument
            columns == NpShape(kin_last.arg.stoichiometry)
                           [Len(NpShape(kin_last.arg.stoichiometry))]
        IN  /\ (~LowerCases(arg, StrConcentration)
                /\ ~LowerCases(arg, StrPartialPressure)) =>
                  (kin_last.exc = "ValueError" /\ kinetics = NoObject)
            /\ ((LowerCases(arg, StrConcentration)
                 \/ LowerCases(arg, StrPartialPressure))
                /\ columns = MixLen(kin_last.arg.mix)) =>
                  (kin_last.exc = "none" /\ kinetics # NoObject)
            /\ (kinetics # NoObject /\ LowerCases(arg, StrConcentration)) =>
                  kinetics[1].composition_calculator =
                      [method |-> "concentrations", mix |-> kin_last.arg.mix]
            /\ (kinetics # NoObject /\ LowerCases(arg, StrPartialPressure)) =>
                  kinetics[1].composition_calculator =
                      [method |-> "partial_pressures", mix |-> kin_last.arg.mix]

\* C9 witness: a Kinetics was constructed with "Concentration", capitalised.
C9_Witness ==
    /\ Constructed
    /\ kinetics # NoObject
    /\ kin_last.arg.kinetic_argument # StrConcentration
    /\ kinetics[1].composition_calculator.method = "concentrations"

-----------------------------------------------------------------------------
(* Claims about the evaluation of a Kinetics *)

\* What kinetic_eval returns to the caller for the inputs a: the pair
\* (rates_i, reaction_rates) of one composition, or the pair of arrays of a
\* batch.
EvalReturn(kin, a) ==
    Bind(kinetic_eval_vectorized(
             kin, [i \in 1..Len(a.moles) |-> Floats(a.moles[i])],
             a.temperature, a.pressure),
         LAMBDA r :
      IF r.exc # "none" THEN [exc |-> r.exc, ret |-> <<>>]
      ELSE IF a.layout = "one"
      THEN [exc |-> "none", ret |-> <<r.rates_i[1], r.reaction_rates[1]>>]
      ELSE [exc |-> "none", ret |-> <<r.rates_i, r.reaction_rates>>])

Evaluated == kinetics # NoObject /\ kin_last.op = "kinetic_eval"

\* C11: a constructed Kinetics holds its stoichiometry as a matrix of
\* num_reactions rows of num_substances entries.  A flat list of N
\* coefficients becomes the one-row matrix of those N coefficients with
\* num_reactions = 1; the Kinetics built from it is the Kinetics built from
\* the 1 x N array of the same coefficients, and kinetic_eval returns for
\* every input what it returns on that other Kinetics.
C11_FlatStoichiometryIsOneReaction ==
    LET a == kin_last.arg
        st == a.stoichiometry
        as_2d == [shape |-> <<1, Len(st.flat)>>, flat |-> st.flat]
        other == Kinetics__init__(a.list_of_reactions, a.mix, as_2d,
                                  a.kinetic_argument)
    IN  /\ kinetics # NoObject =>
              /\ Len(kinetics[1].stoichiometry) = kinetics[1].num_reactions
              /\ \A r \in 1..kinetics[1].num_reactions :
                    Len(kinetics[1].stoichiometry[r]) = kinetics[1].total_comp
        /\ (kin_last.op # "none" /\ Len(NpShape(st)) = 1) =>
              /\ kinetics = other.obj
              /\ kinetics # NoObject =>
                    /\ kinetics[1].num_reactions = 1
                    /\ kinetics[1].total_comp = Len(st.flat)
                    /\ kinetics[1].stoichiometry = <<st.flat>>
              /\ kin_last.op = "kinetic_eval" =>
                    /\ kin_last.exc = EvalReturn(other.obj[1], a).exc
                    /\ kin_last.ret = EvalReturn(other.obj[1], a).ret

\* C11 witness: a Kinetics built from a flat list of three coefficients has
\* returned the rates of one composition.
C11_Witness ==
    /\ Evaluated
    /\ NpShape(kin_last.arg.stoichiometry) = <<3>>
    /\ kin_last.arg.layout = "one"
    /\ kin_last.exc = "none"
    /\ Len(kin_last.ret[1]) = 3

\* The atomic-mass vectors tried against a stoichiometry, and those that
\* every reaction of the stoichiometry conserves
MassVectors(substances) == [1..substances -> 1..MaxMoles]
Conserved(stoichiometry, m) ==
    \A r \in 1..Len(stoichiometry) :
        SeqSum([s \in 1..Len(m) |-> stoichiometry[r][s] * m[s]]) = 0

\* C12: the net rate kinetic_eval returns for substance s is the sum over
\* the reactions r of rate_r * stoichiometry[r, s], with rate_r the
\* per-reaction rate it returns beside it; so for every mass vector m that
\* each reaction conserves (stoichiometry . m = 0) the net rates weighted
\* by m sum to zero.
C12_NetRatesAreStoichiometricSums ==
    (Evaluated /\ kin_last.exc = "none" /\ kin_last.arg.layout = "one") =>
        LET rates_i == kin_last.ret[1]
            reaction_rates == kin_last.ret[2]
            stoichiometry == kinetics[1].stoichiometry
            substances == Len(stoichiometry[1])
        IN  /\ Len(reaction_rates) = Len(stoichiometry)
            /\ Len(rates_i) = substances
            /\ \A s \in 1..substances :
                  rates_i[s] =
                     FSum([r \in 1..Len(stoichiometry) |->
                             FMul(reaction_rates[r], Float(stoichiometry[r][s]))])
            /\ \A m \in MassVectors(substances) :
                  Conserved(stoichiometry, m) =>
                     FSum([s \in 1..substances |->
                             FMul(rates_i[s], Float(m[s]))]) = Float(0)

\* C12 witness: two reactions over three substances, both conserving the
\* masses (1, 1, 2), were evaluated and a net rate is not zero.
C12_Witness ==
    /\ Evaluated
    /\ kin_last.exc = "none"
    /\ kin_last.arg.layout = "one"
    /\ Len(kinetics[1].stoichiometry) = 2
    /\ Len(kinetics[1].stoichiometry[1]) = 3
    /\ Conserved(kinetics[1].stoichiometry, <<1, 1, 2>>)
    /\ kin_last.ret[1][1] # Float(0)
    /\ kin_last.ret[2][1] # kin_last.ret[2][2]

\* The composition of node i in the batch a, and what kinetic_eval, the
\* method itself, returns for node i alone
NodeMoles(a, i) ==
    IF a.layout = "nodes" THEN a.moles[i] ELSE Column(a.moles, i)
NodeAlone(kin, a, i) ==
    kinetic_eval(kin, Floats(NodeMoles(a, i)), a.temperature[i], a.pressure[i])

\* C13: kinetic_eval on a batch of nodes, with one composition, one
\* temperature and one pressure per node, returns one net-rate vector and
\* one per-reaction-rate vector per node, in the order of the nodes, each
\* the result of evaluating that node alone; for the layout with one row
\* per node and for the layout of PFR.evaluate_balances, with one row per
\* substance and one column per node.
C13_BatchIsNodeWise ==
    (Evaluated /\ kin_last.arg.layout \in {"nodes", "substances"}) =>
        LET a == kin_last.arg
            nodes == Len(a.temperature)
        IN  /\ kin_last.exc = "none"
            /\ Len(kin_last.ret[1]) = nodes
            /\ Len(kin_last.ret[2]) = nodes
            /\ \A i \in 1..nodes :
                  /\ kin_last.ret[1][i] = NodeAlone(kinetics[1], a, i).rates_i
                  /\ kin_last.ret[2][i] =
                        NodeAlone(kinetics[1], a, i).reaction_rates

EnthalpiesReturned == kinetics # NoObject /\ kin_last.op = "reaction_enthalpies"

\* C14: reaction_enthalpies(temperature, pressure) is, for every reaction,
\* the standard reaction enthalpy plus the sum over the substances of the
\* stoichiometric coefficient times the integral of the substance's heat
\* capacity from 298.15 K to the temperature, the liquid heat capacity in a
\* liquid mixture and the gas one in a gas mixture; at 298.15 K it is the
\* standard reaction enthalpy exactly.
C14_ReactionEnthalpies ==
    EnthalpiesReturned =>
        LET kin == kinetics[1]
            temperature == kin_last.arg.temperature[1]
            cp == IF kin.mix.phase = "liquid" THEN kin.mix.cp_liquid
                  ELSE kin.mix.cp_gas
            width == FAdd(temperature, <<-29815, 100>>)
        IN  /\ kin_last.exc = "none"
            /\ Len(kin_last.ret) = kin.num_reactions
            /\ \A r \in 1..kin.num_reactions :
                  kin_last.ret[r] =
                     FAdd(Float(kin.std_reaction_enthalpies[r]),
                          FSum([s \in 1..MixLen(kin.mix) |->
                                  FMul(Float(kin.stoichiometry[r][s] * cp[s]),
                                       width)]))
            /\ temperature = <<5963, 20>> =>
                  kin_last.ret = Floats(kin.std_reaction_enthalpies)

\* C14 witness: the enthalpies of a gas mixture's reaction were returned at
\* 298.15 K and are the standard ones, not zero; off 298.15 K they differ.
C14_Witness ==
    /\ EnthalpiesReturned
    /\ kinetics[1].mix.phase = "gas"
    /\ kin_last.arg.temperature[1] = t_0
    /\ kin_last.ret = Floats(kinetics[1].std_reaction_enthalpies)
    /\ kin_last.ret[1] # Float(0)
    /\ reaction_enthalpies(kinetics[1], Float(300), 1).value # kin_last.ret

\* C15: reading kinetic_argument through the reactor gives the argument mode
\* the Kinetics is configured with, the string "concentration" or
\* "partial_pressure"; once a value v was assigned through the reactor it
\* gives v.
C15_KineticArgumentRoundTrip ==
    (kinetics # NoObject /\ kin_last.op = "get_kinetic_argument") =>
        /\ kin_last.ret.type = "str"
        /\ kin_last.ret.value =
              IF kinetics[1].kinetic_argument # NoObject
              THEN kinetics[1].kinetic_argument[1]
              ELSE kinetics[1].argument

-----------------------------------------------------------------------------
(* Claims about the reactor's results, gradients and boundary vectors *)

\* C16: after simulate has returned, the columns of the results table are
\* "z", the substance names in the mixture's order, "temperature",
\* "refrigerant_temperature" and "pressure", in that order, as many as
\* substances + 4; the table has one row per node of the solver's final
\* mesh; its first column is the mesh and its column k + 1 is row k of the
\* final state.
C16_ResultsTable ==
    (pc = 1 /\ "_sim_df" \in reactor.attrs) =>
        LET table == reactor.sim_df
            x == reactor.simulation.x
            y == reactor.simulation.y
            substances == MixLen(reactor.mix)
        IN  /\ Len(table.columns) = substances + 4
            /\ table.columns[1] = "z"
            /\ \A s \in 1..substances :
                  table.columns[1 + s] = reactor.mix.names[s]
            /\ table.columns[substances + 2] = "temperature"
            /\ table.columns[substances + 3] = "refrigerant_temperature"
            /\ table.columns[substances + 4] = "pressure"
            /\ Len(table.data) = Len(x)
            /\ \A node \in 1..Len(x) :
                  /\ Len(table.data[node]) = substances + 4
                  /\ table.data[node][1] = x[node]
                  /\ \A k \in 1..(substances + 3) :
                        table.data[node][k + 1] = y[k][node]

\* C16 witness: simulate has returned with a table of a three-node final
\* mesh, which has five state rows.
C16_Witness ==
    /\ pc = 1
    /\ "_sim_df" \in reactor.attrs
    /\ phase = "converged"
    /\ Len(reactor.simulation.x) = 3
    /\ Len(reactor.simulation.y) = 5
    /\ reactor.sim_df.data[3][2] = reactor.simulation.y[1][3]
    /\ reactor.simulation.y[1][3] # reactor.simulation.y[3][1]

\* C17: the pressure gradient Ergun.evaluate_balance returns at a node is
\* -(u / dp) * ((1 - phi) / phi^3) * (150 * (1 - phi) * mu / dp + 1.75 * u * rho)
\* with u, mu and rho all taken at that node: u from the node's mass flows,
\* the node's composition and the node's density.
C17_ErgunGradientIsLocal ==
    ret.op = "evaluate_balances" =>
        LET m_rho == mass_density(reactor.mix, reactor.mole_fraction_profile,
                                  reactor.temperature_profile,
                                  reactor.pressure_profile)
            mu == mix_viscosity(reactor.mix, reactor.mole_fraction_profile,
                                reactor.temperature_profile,
                                reactor.pressure_profile)
            pressure_gradient == ret.value[Len(ret.value)]
        IN  /\ Len(pressure_gradient) = Len(reactor.z)
            /\ \A c \in 1..Len(reactor.z) :
                  pressure_gradient[c] =
                     ErgunGradient(SuperficialVelocity(reactor, m_rho, c),
                                   mu[c], m_rho[c], Float(ergun[1].porosity),
                                   Float(ergun[1].particle_diameter))

\* The total moles at node c of a moles array, and the sum over the
\* substances of the fractions at node c
NodeTotal(moles, c) == SeqSum(Column(moles, c))
FractionSum(zi, c) == FSum(Column(zi, c))

\* C18 as stated: for any mixture and any moles array with one column per
\* node, the mole fractions sum to 1 over the substances at every node.
C18_FractionsSumToOne ==
    /\ kin_last.op = "mole_fractions" =>
          \A c \in 1..Len(kin_last.arg.moles[1]) :
              FractionSum(kin_last.ret.zi, c) = Float(1)
    /\ kin_last.op = "mol_fracations" =>
          FSum(kin_last.ret.zi) = Float(1)

\* C18, amended: at every node where the total moles are not zero the mole
\* fractions sum to 1 over the substances, and they are the fractions of
\* that node's moles alone; where the total is zero they are 0 / 0, not
\* numbers.
C18_FractionsSumToOneWhereDefined ==
    /\ kin_last.op = "mole_fractions" =>
          \A c \in 1..Len(kin_last.arg.moles[1]) :
              /\ NodeTotal(kin_last.arg.moles, c) # 0 =>
                    FractionSum(kin_last.ret.zi, c) = Float(1)
              /\ NodeTotal(kin_last.arg.moles, c) = 0 =>
                    \A s \in 1..Len(kin_last.arg.moles) :
                        IsNaN(kin_last.ret.zi[s][c])
              /\ Column(kin_last.ret.zi, c) =
                    mol_fracations(Floats(Column(kin_last.arg.moles, c)))
    /\ kin_last.op = "mol_fracations" =>
          IF NodeTotal(kin_last.arg.moles, kin_last.ret.node) # 0
          THEN FSum(kin_last.ret.zi) = Float(1)
          ELSE \A s \in 1..Len(kin_last.ret.zi) : IsNaN(kin_last.ret.zi[s])

\* C18 witness: the fractions of a three-substance, two-node array were
\* taken; the first node holds no moles and the second holds unequal ones.
C18_Witness ==
    /\ kin_last.op = "mole_fractions"
    /\ Len(kin_last.arg.moles) = 3
    /\ Len(kin_last.arg.moles[1]) = 2
    /\ NodeTotal(kin_last.arg.moles, 1) = 0
    /\ NodeTotal(kin_last.arg.moles, 2) = 3
    /\ kin_last.ret.zi[1][2] = Ratio(2, 3)
    /\ kin_last.ret.zi[2][2] = Ratio(1, 3)

\* The rows of a boundary vector that hold a value
SpecifiedRows(conditions) ==
    {row \in 1..Len(conditions) : conditions[row] # None}

\* C20: after border_conditions_builder the inlet vector and the outlet
\* vector have one entry per row of the stacked state array, in its row
\* order: the mass balance's values for the substances, the energy
\* balance's for the temperature and the refrigerant temperature, the
\* pressure balance's for the pressure.  The inlet index set is the set of
\* the rows whose inlet entry holds a value, a value of 0 included, the
\* outlet index set the set of the rows whose outlet entry holds a value.
C20_BoundaryVectors ==
    "boundary" \in built =>
        LET substances == MixLen(reactor.mix)
            mass == MolarFlow_border_conditions(mass_balance)
            temperature == Energy_border_conditions(energy_balance)
            pressure == Ergun_border_conditions(ergun[1])
            stacked == initial_profile_builder(reactor, mass_balance,
                           energy_balance, ergun[1]).initial_variables_profile
        IN  \A side \in 1..2 :
              LET conditions == IF side = 1 THEN reactor.inlet_conditions
                                ELSE reactor.outlet_conditions
                  index == IF side = 1 THEN reactor.in_index
                           ELSE reactor.out_index
              IN  /\ Len(conditions) = Len(stacked)
                  /\ \A s \in 1..substances : conditions[s] = mass[side][s]
                  /\ conditions[substances + 1] = temperature[side][1]
                  /\ conditions[substances + 2] = temperature[side][2]
                  /\ conditions[substances + 3] = pressure[side]
                  /\ Len(index) = Cardinality(SpecifiedRows(conditions))
                  /\ {index[i] + 1 : i \in 1..Len(index)} =
                        SpecifiedRows(conditions)

\* C20 witness: the vectors were built for a specification with an inlet
\* flow of 0, recorded at index 0, a substance given at the outlet only and
\* the pressure given at the outlet.
C20_Witness ==
    /\ "boundary" \in built
    /\ reactor.inlet_conditions[1] = 0
    /\ reactor.in_index # <<>>
    /\ reactor.in_index[1] = 0
    /\ reactor.inlet_conditions[2] = None
    /\ reactor.outlet_conditions[2] = 1
    /\ reactor.inlet_conditions[3] = 1
    /\ reactor.outlet_conditions[5] # None
    /\ 4 \in {reactor.out_index[i] : i \in 1..Len(reactor.out_index)}

\* C19: for the reaction A -> B at the constant rate k in the isothermal
\* reactor of test_fogler_p1_15a, in the inlet-only formulation and in the
\* two mixed ones, simulate obtains a profile, that is, it does not end by
\* raising, and the profile is the closed form C_A(z) = C_A,in - z * k / F_v,
\* C_B = C_A,in - C_A: on every mesh the solver evaluates the balances on,
\* the flow of A falls and the flow of B rises at the rate k at every node.
C19_ClosedFormProfile ==
    /\ ret.op = "simulate" => ret.exc = "none"
    /\ ret.op = "evaluate_balances" =>
          \A c \in 1..Len(reactor.z) :
              /\ ret.value[1][c] = Float(-kinetics[1].reactions[1].k)
              /\ ret.value[2][c] = Float(kinetics[1].reactions[1].k)

-----------------------------------------------------------------------------
(* Claims about the residual function and the fields it caches *)

\* The fields of the reactor hold the rows of one stacked state array: the
\* first n rows as the mass rows, then the temperature, the refrigerant
\* temperature and the pressure.
Unstacked(variables) ==
    LET n == MixLen(reactor.mix)
    IN  /\ reactor.mass_profile = SubSeq(variables, 1, n)
        /\ reactor.temperature_profile = variables[Len(variables) - 2]
        /\ reactor.refrigerant_temperature_profile = variables[Len(variables) - 1]
        /\ reactor.pressure_profile = variables[Len(variables)]

\* evaluate_balances was called and raised: simulate ended with its exception.
BalancesRaised == ret.op = "simulate" /\ ret.exc # "none"

\* C21: evaluate_balances accepts a mesh of any length, whatever the length
\* of the previous call or of the construction: it never raises, it takes
\* rows 0..n-1 of the state as the mass rows, row -3 as the temperature,
\* row -2 as the refrigerant temperature and row -1 as the pressure, and it
\* returns gradients of n + 3 rows and len(z) columns.
C21_AnyMeshAccepted ==
    /\ ~BalancesRaised
    /\ ret.op = "evaluate_balances" =>
          /\ \E k \in TrialIds :
                Unstacked(TrialState(NRows, k, Len(reactor.z)))
          /\ RowsHave(ret.value, NRows, Len(reactor.z))

\* The state array a reactor's cached profiles were un-stacked from
Stacked(r) ==
    r.mass_profile \o <<r.temperature_profile,
                        r.refrigerant_temperature_profile, r.pressure_profile>>

\* The reactor as it was constructed, before any call cached anything on it
AsConstructed(r) ==
    PFR__init__(r.mix, r.reactor_length, r.transversal_area, r.initial_grid_size)

\* The reactor without the fields evaluate_balances caches: the boundary
\* vectors, the index sets, the geometry, the initial grid size, the
\* solver's result and the results table are what is left.
Uncached(r) ==
    [r EXCEPT !.z = <<>>, !.grid_size = 0, !.mass_profile = <<>>,
              !.temperature_profile = <<>>,
              !.refrigerant_temperature_profile = <<>>,
              !.pressure_profile = <<>>, !.mole_fraction_profile = <<>>,
              !.r_rates_profile = <<>>]

\* C22: what evaluate_balances returns (or raises) for a mesh and a state is
\* what it returns for them on a reactor no call was made on yet, so it
\* depends on the mesh and the state only and never on the calls made
\* before; and a call changes nothing on the reactor but the cached grid,
\* grid size, profiles, mole fractions and rates: the boundary vectors, the
\* index sets, the geometry, the initial grid size and the balances stay.
C22_ResidualIsPure ==
    /\ [](ret.op = "evaluate_balances" \/ BalancesRaised =>
            Bind(evaluate_balances(AsConstructed(reactor), kinetics[1],
                                   mass_balance, energy_balance, ergun[1],
                                   reactor.z, Stacked(reactor)),
                 LAMBDA fresh : /\ fresh.exc = ret.exc
                                /\ fresh.gradients = ret.value))
    /\ [][(solver.active /\ ret'.op \in {"evaluate_balances", "simulate"}) =>
              /\ Uncached(reactor') = Uncached(reactor)
              /\ UNCHANGED <<mass_balance, energy_balance, ergun, kinetics>>]_vars

\* C22 witness: the balances were evaluated, and returned gradients, in a
\* later simulate call: the boundary vectors are built and an earlier call
\* has left a result on another mesh.
C22_Witness ==
    /\ solver.active
    /\ ret.op = "evaluate_balances"
    /\ ret.value # <<>>
    /\ reactor.in_index # <<>>
    /\ "_sim_df" \in reactor.attrs
    /\ Len(reactor.simulation.x) # Len(reactor.z)

SimulateReturned ==
    /\ pc = 1
    /\ phase \in {"converged", "failed"}
    /\ "_sim_df" \in reactor.attrs
    /\ ~BalancesRaised

\* C24: after simulate returns, the grid and the profiles cached on the
\* reactor are the final solved profile, whatever trial meshes the solver
\* evaluated: z is the solver's final mesh, the cached mass, temperature,
\* refrigerant-temperature and pressure rows are the rows of the solver's
\* final state, the cached mole fractions are those of its mass rows, and
\* so they agree with the "z" column and the state columns of the table.
C24_FinalProfileCached ==
    SimulateReturned =>
        /\ reactor.z = reactor.simulation.x
        /\ Unstacked(reactor.simulation.y)
        /\ reactor.mole_fraction_profile =
              mole_fractions(SubSeq(reactor.simulation.y, 1,
                                    MixLen(reactor.mix)))
        /\ \A node \in 1..Len(reactor.sim_df.data) :
              /\ reactor.sim_df.data[node][1] = reactor.z[node]
              /\ \A row \in 1..NRows :
                    reactor.sim_df.data[node][row + 1] =
                        Stacked(reactor)[row][node]

-----------------------------------------------------------------------------
(* Claims about the reactor's kinetics property *)

\* C25: assigning to reactor.kinetics a value that is not a Kinetics
\* instance raises ValueError and leaves the stored kinetics, and with it
\* the reactor's mix, stoichiometry and reaction list, as they were;
\* assigning a Kinetics instance raises nothing, and the kinetics, mix and
\* stoichiometry getters then return the instance and its mix and
\* stoichiometry.
C25_KineticsAssignment ==
    kin_last.op = "set_kinetics" =>
        LET new == kin_last.ret.new
            previous == kin_last.ret.previous
        IN  IF new.class = "Kinetics"
            THEN /\ kin_last.exc = "none"
                 /\ ReactorBase_kinetics = new.ref
                 /\ ReactorBase_mix = new.ref[1].mix
                 /\ ReactorBase_stoichiometry = new.ref[1].stoichiometry
            ELSE /\ kin_last.exc = "ValueError"
                 /\ ReactorBase_kinetics = previous
                 /\ previous # NoObject =>
                       /\ ReactorBase_mix = previous[1].mix
                       /\ ReactorBase_stoichiometry = previous[1].stoichiometry
                       /\ kinetics[1].reactions = previous[1].reactions

\* C25 witness: an object that has every attribute of a Kinetics but is of
\* another class was assigned and refused, while the reactor held a
\* Kinetics of another mixture, whose mix had been replaced through the
\* reactor.
C25_Witness ==
    /\ kin_last.op = "set_kinetics"
    /\ kin_last.exc = "ValueError"
    /\ kin_last.ret.new.class = "object"
    /\ kin_last.ret.new.ref # NoObject
    /\ kinetics # NoObject
    /\ kinetics # kin_last.ret.new.ref
    /\ kinetics[1].mix = MixCD
    /\ kinetics[1].composition_calculator.mix = MixABC
    /\ kin_last.ret.new.ref[1].mix = MixAB

====
